---- MODULE Spec2Model ----
(***************************************************************************)
(* A model of jittery/thirdparty/controlflow.py: the CFGraph class, its    *)
(* construction operations, process() and the derived analyses.            *)
(*                                                                         *)
(* Nodes are opaque hashable values; the model uses the integers           *)
(* 1..MaxNodes.  A _DictOfContainers (a defaultdict of sets whose equality *)
(* ignores empty values) is a total function to sets: an absent key and an *)
(* empty set are the same value.  A cached_property is a sequence: <<>>    *)
(* while it is not computed, <<value>> once it is.  The iteration order of *)
(* a Python set is not fixed by the program: the traversals take every     *)
(* order, the worklist takes the order given by a permutation the calling  *)
(* action chooses.                                                         *)
(***************************************************************************)
EXTENDS Integers, Sequences, FiniteSets, TLC

\* Bounds of the model: the node universe and the number of edges.
MaxNodes == 3
MaxEdges == 4

NodeIds == 1..MaxNodes

\* dummy_exit = object(): a fresh value, different from every node.
dummy_exit == 0

\* self._entry_point = None
None == -1

\* The edge payloads add_edge is called with (data=None is the default).
Data == {"None"}

AllIds == NodeIds \cup {dummy_exit}

VARIABLES
    nodes,          \* self._nodes
    preds,          \* self._preds
    succs,          \* self._succs
    edge_data,      \* self._edge_data
    entry_point,    \* self._entry_point
    dead_nodes,     \* self._dead_nodes (set by process)
    processed,      \* process() has run: the graph is frozen
    added,          \* history: every node add_node was called with
    raised,         \* the exception the last call ended with, or "none"
    c_exit_points,  \* cached_property _exit_points
    c_doms,         \* cached_property _doms
    c_back_edges,   \* cached_property _back_edges
    c_loops,        \* cached_property _loops
    c_post_doms,    \* cached_property _post_doms
    c_idom,         \* cached_property _idom
    c_df,           \* cached_property _df
    c_topo_order,   \* cached_property _topo_order
    pc,             \* _find_dominators_internal: "idle", or "loop" while it runs
    l_post,         \* its argument post
    l_entries,      \* its local entries
    l_doms,         \* its local doms
    l_todo          \* its local todo

graph == <<nodes, preds, succs, edge_data, entry_point, dead_nodes, processed, added>>
caches == <<c_exit_points, c_doms, c_back_edges, c_loops, c_post_doms, c_idom, c_df,
            c_topo_order>>
locals == <<pc, l_post, l_entries, l_doms, l_todo>>
vars == <<graph, raised, caches, locals>>

----------------------------------------------------------------------------
\* Helpers for Python containers.

\* A set as a list, in one of its iteration orders.
RECURSIVE SeqOf(_)
SeqOf(S) ==
    IF S = {} THEN <<>>
    ELSE LET x == CHOOSE y \in S : TRUE IN <<x>> \o SeqOf(S \ {x})

\* Every list holding the members of S once: the iteration orders of a set.
RECURSIVE Perms(_)
Perms(S) ==
    IF S = {} THEN {<<>>}
    ELSE UNION {{<<x>> \o p : p \in Perms(S \ {x})} : x \in S}

\* The members of set S in the order list ord ranks them.
RECURSIVE InOrder(_, _)
InOrder(S, ord) ==
    IF ord = <<>> THEN <<>>
    ELSE (IF Head(ord) \in S THEN <<Head(ord)>> ELSE <<>>) \o InOrder(S, Tail(ord))

Range(s) == {s[i] : i \in 1..Len(s)}

Last(s) == s[Len(s)]

Front(s) == SubSeq(s, 1, Len(s) - 1)

\* The three tables of a graph, as the internal operations pass them on.
Tables(s, p, e) == [succs |-> s, preds |-> p, edge_data |-> e]

----------------------------------------------------------------------------
\* Construction.

Init ==
    /\ nodes = {}
    /\ preds = [n \in AllIds |-> {}]
    /\ succs = [n \in AllIds |-> {}]
    /\ edge_data = <<>>
    /\ entry_point = None
    /\ dead_nodes = {}
    /\ processed = FALSE
    /\ added = {}
    /\ raised = "none"
    /\ c_exit_points = <<>>
    /\ c_doms = <<>>
    /\ c_back_edges = <<>>
    /\ c_loops = <<>>
    /\ c_post_doms = <<>>
    /\ c_idom = <<>>
    /\ c_df = <<>>
    /\ c_topo_order = <<>>
    /\ pc = "idle"
    /\ l_post = FALSE
    /\ l_entries = {}
    /\ l_doms = <<>>
    /\ l_todo = <<>>

\* _add_edge(from_, to, data) on tables t.
AddEdgeInternal(t, from, to, data) ==
    Tables([t.succs EXCEPT ![from] = @ \cup {to}],
           [t.preds EXCEPT ![to] = @ \cup {from}],
           [e \in DOMAIN t.edge_data \cup {<<from, to>>} |->
               IF e = <<from, to>> THEN data ELSE t.edge_data[e]])

add_node(n) ==
    /\ ~processed
    /\ nodes' = nodes \cup {n}
    /\ added' = added \cup {n}
    /\ raised' = "none"
    /\ UNCHANGED <<preds, succs, edge_data, entry_point, dead_nodes, processed, caches, locals>>

\* A mutant of add_edge: the edge is inserted without looking the endpoints
\* up in the node set.
AddEdgeUnchecked(src, dest, data) ==
    /\ ~processed
    /\ <<src, dest>> \in DOMAIN edge_data \/ Cardinality(DOMAIN edge_data) < MaxEdges
    /\ LET t == AddEdgeInternal(Tables(succs, preds, edge_data), src, dest, data)
       IN /\ succs' = t.succs
          /\ preds' = t.preds
          /\ edge_data' = t.edge_data
    /\ raised' = "none"
    /\ UNCHANGED <<nodes, entry_point, dead_nodes, processed, added, caches, locals>>

add_edge(src, dest, data) ==
    /\ ~processed
    /\ IF src \notin nodes \/ dest \notin nodes
       THEN /\ raised' = "ValueError"
            /\ UNCHANGED <<preds, succs, edge_data>>
       ELSE /\ <<src, dest>> \in DOMAIN edge_data \/ Cardinality(DOMAIN edge_data) < MaxEdges
            /\ LET t == AddEdgeInternal(Tables(succs, preds, edge_data), src, dest, data)
               IN /\ succs' = t.succs
                  /\ preds' = t.preds
                  /\ edge_data' = t.edge_data
            /\ raised' = "none"
    /\ UNCHANGED <<nodes, entry_point, dead_nodes, processed, added, caches, locals>>

set_entry_point(n) ==
    /\ ~processed
    /\ IF n \in nodes
       THEN entry_point' = n /\ raised' = "none"
       ELSE entry_point' = entry_point /\ raised' = "AssertionError"
    /\ UNCHANGED <<nodes, preds, succs, edge_data, dead_nodes, processed, added, caches, locals>>

----------------------------------------------------------------------------
\* process(): dead block elimination.

\* A mutant of RemoveNodeEdges: the edges leaving the node are left in place.
RemoveIncomingEdgesOnly(t, node) ==
    LET in == t.preds[node]
    IN Tables([n \in DOMAIN t.succs |-> IF n \in in THEN t.succs[n] \ {node} ELSE t.succs[n]],
              [t.preds EXCEPT ![node] = {}],
              [e \in DOMAIN t.edge_data \ {<<x, node>> : x \in in} |-> t.edge_data[e]])

\* A mutant of RemoveNodeEdges: the edges entering the node are left in place.
RemoveOutgoingEdgesOnly(t, node) ==
    LET out == t.succs[node]
    IN Tables([t.succs EXCEPT ![node] = {}],
              [n \in DOMAIN t.preds |-> IF n \in out THEN t.preds[n] \ {node} ELSE t.preds[n]],
              [e \in DOMAIN t.edge_data \ {<<node, x>> : x \in out} |-> t.edge_data[e]])

\* _remove_node_edges(node) on tables t.
RemoveNodeEdges(t, node) ==
    LET out == t.succs[node]
        s1 == [t.succs EXCEPT ![node] = {}]
        p1 == [n \in DOMAIN t.preds |->
                 IF n \in out THEN t.preds[n] \ {node} ELSE t.preds[n]]
        e1 == [e \in DOMAIN t.edge_data \ {<<node, x>> : x \in out} |-> t.edge_data[e]]
        in == p1[node]
        p2 == [p1 EXCEPT ![node] = {}]
        s2 == [n \in DOMAIN s1 |-> IF n \in in THEN s1[n] \ {node} ELSE s1[n]]
        e2 == [e \in DOMAIN e1 \ {<<x, node>> : x \in in} |-> e1[e]]
    IN Tables(s2, p2, e2)

\* _dfs(): the nodes yielded from the work stack, as a set.
RECURSIVE Dfs(_, _, _)
Dfs(s, seen, stack) ==
    IF stack = <<>> THEN seen
    ELSE LET node == Last(stack)
         IN IF node \in seen
            THEN Dfs(s, seen, Front(stack))
            ELSE Dfs(s, seen \cup {node}, Front(stack) \o SeqOf(s[node]))

\* The loop of _eliminate_dead_blocks over the dead nodes.
RECURSIVE RemoveAll(_, _)
RemoveAll(t, dead) ==
    IF dead = {} THEN t
    ELSE LET d == CHOOSE x \in dead : TRUE
         IN RemoveAll(RemoveNodeEdges(t, d), dead \ {d})

EliminateDeadBlocks ==
    LET live == Dfs(succs, {}, <<entry_point>>)
        dead == nodes \ live
        t == RemoveAll(Tables(succs, preds, edge_data), dead)
    IN /\ dead_nodes' = dead
       /\ nodes' = live
       /\ succs' = t.succs
       /\ preds' = t.preds
       /\ edge_data' = t.edge_data

process ==
    /\ ~processed
    /\ IF entry_point = None
       THEN /\ raised' = "RuntimeError"
            /\ UNCHANGED <<nodes, preds, succs, edge_data, dead_nodes, processed>>
       ELSE /\ EliminateDeadBlocks
            /\ processed' = TRUE
            /\ raised' = "none"
    /\ UNCHANGED <<entry_point, added, caches, locals>>

----------------------------------------------------------------------------
\* Dominators: the worklist algorithm of _find_dominators_internal.

\* A mutant of IntersectAll: the union of the sets instead of their
\* intersection.
UnionAll(doms, ps) == UNION {doms[p] : p \in ps}

\* functools.reduce(set.intersection, [doms[p] for p in ps]), ps not empty.
IntersectAll(doms, ps) ==
    {x \in UNION {doms[p] : p \in ps} : \A p \in ps : x \in doms[p]}

\* A mutant of NewDoms: the node itself is left out of its recomputed set.
NewDomsWithoutSelf(doms, n, preds_table) ==
    IF preds_table[n] # {} THEN IntersectAll(doms, preds_table[n]) ELSE {}

\* new_doms = set([n]); if preds: new_doms |= the intersection over preds.
NewDoms(doms, n, preds_table) ==
    {n} \cup (IF preds_table[n] # {} THEN IntersectAll(doms, preds_table[n]) ELSE {})

\* One iteration of the while loop for the node n popped from the todo list,
\* rest being what is left of the list.
WorklistStep(doms, n, rest, new_doms, succs_table, ord) ==
    IF new_doms = doms[n]
    THEN [err |-> "none", doms |-> doms, todo |-> rest]
    ELSE IF ~(Cardinality(new_doms) < Cardinality(doms[n]))
    THEN [err |-> "AssertionError", doms |-> doms, todo |-> rest]
    ELSE [err |-> "none", doms |-> [doms EXCEPT ![n] = new_doms],
          todo |-> rest \o InOrder(succs_table[n], ord)]

\* A mutant of InitialDoms: the nodes that are not entries start with the
\* empty set.
InitialDomsEmpty(nds, entries) ==
    [n \in nds \cup entries |-> IF n \in entries THEN {n} ELSE {}]

\* The table before the loop: doms[e] = set([e]) for the entries,
\* doms[n] = set(self._nodes) for the other nodes.
InitialDoms(nds, entries) ==
    [n \in nds \cup entries |-> IF n \in entries THEN {n} ELSE nds]

\* The while loop over the todo list; ord is the iteration order of the sets.
\* Ends with the table, or with the failed assertion.
RECURSIVE Worklist(_, _, _, _, _, _)
Worklist(doms, todo, entries, preds_table, succs_table, ord) ==
    IF todo = <<>> THEN [err |-> "none", doms |-> doms]
    ELSE IF Last(todo) \in entries
    THEN Worklist(doms, Front(todo), entries, preds_table, succs_table, ord)
    ELSE LET st == WorklistStep(doms, Last(todo), Front(todo),
                                NewDoms(doms, Last(todo), preds_table),
                                succs_table, ord)
         IN IF st.err # "none" THEN [err |-> st.err, doms |-> st.doms]
            ELSE Worklist(st.doms, st.todo, entries, preds_table, succs_table, ord)

\* _find_dominators_internal on live nodes nds, seeded with entries, walking
\* preds_table backwards and succs_table forwards.
FindDominatorsInternal(nds, entries, preds_table, succs_table, ord) ==
    IF entries = {}
    THEN [err |-> "RuntimeError", doms |-> <<>>]
    ELSE Worklist(InitialDoms(nds, entries),
                  InOrder(nds \ entries, ord),
                  entries, preds_table, succs_table, ord)

\* _find_dominators
FindDominators(ord) ==
    FindDominatorsInternal(nodes, {entry_point}, preds, succs, ord)

\* dominators(): the cached property _doms, computed on first use.
dominators ==
    /\ processed
    /\ IF c_doms # <<>>
       THEN raised' = "none" /\ UNCHANGED c_doms
       ELSE \E ord \in Perms(nodes) : \E r \in {FindDominators(ord)} :
               /\ c_doms' = IF r.err = "none" THEN <<r.doms>> ELSE c_doms
               /\ raised' = r.err
    /\ UNCHANGED <<graph, c_exit_points, c_back_edges, c_loops, c_post_doms, c_idom, c_df, c_topo_order, locals>>

----------------------------------------------------------------------------
\* Back edges: the depth-first traversal of _find_back_edges.

\* The while loop of _find_back_edges.  succs_state[n] is the list of the
\* successors of n not checked yet; its order is the iteration order of a
\* set, so pop() may take any of them.  The set of the results of all runs.
RECURSIVE BackEdgeRuns(_, _, _, _, _)
BackEdgeRuns(s, stack, succs_state, checked, back_edges) ==
    IF stack = <<>> THEN {back_edges}
    ELSE LET tos == Last(stack)
         IN IF succs_state[tos] # {}
            THEN UNION {
                   LET st == [succs_state EXCEPT ![tos] = @ \ {cur_node}]
                   IN IF cur_node \in Range(stack)
                      THEN BackEdgeRuns(s, stack, st, checked,
                                        back_edges \cup {<<tos, cur_node>>})
                      ELSE IF cur_node \notin checked
                      THEN BackEdgeRuns(s, Append(stack, cur_node),
                                        [st EXCEPT ![cur_node] = s[cur_node]],
                                        checked, back_edges)
                      ELSE BackEdgeRuns(s, stack, st, checked, back_edges)
                   : cur_node \in succs_state[tos]}
            ELSE BackEdgeRuns(s, Front(stack), succs_state,
                              checked \cup {tos}, back_edges)

\* _find_back_edges: the back edge sets the traversal can return.
FindBackEdges ==
    BackEdgeRuns(succs, <<entry_point>>,
                 [n \in AllIds |-> IF n = entry_point THEN succs[n] ELSE {}],
                 {}, {})

\* The cached property _back_edges: its value, or what computing it can give.
BackEdgesChoices ==
    IF c_back_edges # <<>> THEN {c_back_edges[1]} ELSE FindBackEdges

----------------------------------------------------------------------------
\* Immediate dominators (Cooper, Harvey, Kennedy).

\* The callback stack of _find_postorder: <<"dfs_rec", n>> visits n,
\* <<"append", n>> appends it to post_order.  The successors of a node are
\* pushed in any iteration order.  The set of the lists all runs can return.
RECURSIVE PostorderRuns(_, _, _, _, _)
PostorderRuns(s, back_edges, stack, seen, post_order) ==
    IF stack = <<>> THEN {post_order}
    ELSE LET cb == Last(stack)[1]
             node == Last(stack)[2]
             rest == Front(stack)
         IN IF cb = "append"
            THEN PostorderRuns(s, back_edges, rest, seen, Append(post_order, node))
            ELSE IF node \in seen
            THEN PostorderRuns(s, back_edges, rest, seen, post_order)
            ELSE UNION {
                   PostorderRuns(s, back_edges,
                                 rest \o <<(<<"append", node>>)>>
                                      \o [i \in 1..Len(o) |-> <<"dfs_rec", o[i]>>],
                                 seen \cup {node}, post_order)
                   : o \in Perms({dest \in s[node] : <<node, dest>> \notin back_edges})}

\* _find_postorder
FindPostorder(back_edges) ==
    PostorderRuns(succs, back_edges, <<(<<"dfs_rec", entry_point>>)>>, {}, <<>>)

\* A mutant of Intersect: the candidate lower in the postorder is returned
\* without walking up to the common ancestor.
IntersectWithoutWalk(idom, idx, u, v) == IF idx[u] < idx[v] THEN u ELSE v

\* intersect(u, v) of _find_immediate_dominators.
RECURSIVE Intersect(_, _, _, _)
Intersect(idom, idx, u, v) ==
    IF u = v THEN u
    ELSE IF idx[u] < idx[v] THEN Intersect(idom, idx, idom[u], v)
    ELSE Intersect(idom, idx, u, idom[v])

\* functools.reduce(intersect, vs) over the list vs, which is not empty.
RECURSIVE ReduceIntersect(_, _, _)
ReduceIntersect(idom, idx, vs) ==
    IF Len(vs) = 1 THEN vs[1]
    ELSE Intersect(idom, idx, ReduceIntersect(idom, idx, Front(vs)), Last(vs))

\* One pass of "for u in order" from position i on: the set of the results,
\* over the iteration orders of the predecessor sets.  reduce() of an empty
\* sequence raises TypeError.
RECURSIVE IdomPass(_, _, _, _, _, _)
IdomPass(idom, idx, preds_table, order, i, changed) ==
    IF i > Len(order)
    THEN {[err |-> "none", idom |-> idom, changed |-> changed]}
    ELSE LET u == order[i]
             vs == {v \in preds_table[u] : v \in DOMAIN idom}
         IN IF vs = {}
            THEN {[err |-> "TypeError", idom |-> idom, changed |-> changed]}
            ELSE UNION {
                   LET new_idom == ReduceIntersect(idom, idx, o)
                   IN IF u \notin DOMAIN idom \/ idom[u] # new_idom
                      THEN IdomPass([n \in DOMAIN idom \cup {u} |->
                                        IF n = u THEN new_idom ELSE idom[n]],
                                    idx, preds_table, order, i + 1, TRUE)
                      ELSE IdomPass(idom, idx, preds_table, order, i + 1, changed)
                   : o \in Perms(vs)}

\* The "while changed" loop.
RECURSIVE IdomLoop(_, _, _, _)
IdomLoop(idom, idx, preds_table, order) ==
    UNION {IF r.err = "none" /\ r.changed
           THEN IdomLoop(r.idom, idx, preds_table, order)
           ELSE {[err |-> r.err, idom |-> r.idom]}
           : r \in IdomPass(idom, idx, preds_table, order, 1, FALSE)}

\* A mutant of Reverse: the list is left in its order.
KeepOrder(s) == s

\* list.reverse()
Reverse(s) == [i \in 1..Len(s) |-> s[Len(s) + 1 - i]]

\* _find_immediate_dominators, given the back edges: every result it can give.
FindImmediateDominators(back_edges) ==
    UNION {LET idx == [n \in Range(po) |-> (CHOOSE i \in 1..Len(po) : po[i] = n) - 1]
           IN IdomLoop([n \in {entry_point} |-> entry_point], idx, preds,
                       Reverse(Front(po)))
           : po \in FindPostorder(back_edges)}

\* The cached property _idom: its value, or what computing it can give.
IdomChoices(back_edges) ==
    IF c_idom # <<>> THEN {[err |-> "none", idom |-> c_idom[1]]}
    ELSE FindImmediateDominators(back_edges)

\* immediate_dominators(): the cached property _idom, which reads _back_edges.
immediate_dominators ==
    /\ processed
    /\ \E be \in BackEdgesChoices : \E r \in IdomChoices(be) :
          /\ c_back_edges' = IF c_idom # <<>> THEN c_back_edges ELSE <<be>>
          /\ c_idom' = IF r.err = "none" THEN <<r.idom>> ELSE c_idom
          /\ raised' = r.err
    /\ UNCHANGED <<graph, c_exit_points, c_doms, c_loops, c_post_doms, c_df, c_topo_order, locals>>

----------------------------------------------------------------------------
\* Dominance frontier (Cytron et al.).

\* while v != idom[u]: df[v].add(u); v = idom[v]
RECURSIVE FrontierWalk(_, _, _, _)
FrontierWalk(df, idom, u, v) ==
    IF v = idom[u] THEN df
    ELSE FrontierWalk([df EXCEPT ![v] = @ \cup {u}], idom, u, idom[v])

\* for v in preds_table[u]
RECURSIVE FrontierPreds(_, _, _, _)
FrontierPreds(df, idom, u, vs) ==
    IF vs = {} THEN df
    ELSE LET v == CHOOSE x \in vs : TRUE
         IN FrontierPreds(FrontierWalk(df, idom, u, v), idom, u, vs \ {v})

\* for u in idom
RECURSIVE FrontierNodes(_, _, _, _)
FrontierNodes(df, idom, preds_table, us) ==
    IF us = {} THEN df
    ELSE LET u == CHOOSE x \in us : TRUE
         IN FrontierNodes(IF Cardinality(preds_table[u]) < 2 THEN df
                          ELSE FrontierPreds(df, idom, u, preds_table[u]),
                          idom, preds_table, us \ {u})

\* _find_dominance_frontier, given the immediate dominators.
FindDominanceFrontier(idom) ==
    FrontierNodes([u \in DOMAIN idom |-> {}], idom, preds, DOMAIN idom)

\* dominance_frontier(): the cached property _df, which reads _idom.
dominance_frontier ==
    /\ processed
    /\ IF c_df # <<>>
       THEN raised' = "none" /\ UNCHANGED <<c_back_edges, c_idom, c_df>>
       ELSE \E be \in BackEdgesChoices : \E r \in IdomChoices(be) :
              /\ c_back_edges' = IF c_idom # <<>> THEN c_back_edges ELSE <<be>>
              /\ c_idom' = IF r.err = "none" THEN <<r.idom>> ELSE c_idom
              /\ c_df' = IF r.err = "none" THEN <<FindDominanceFrontier(r.idom)>> ELSE c_df
              /\ raised' = r.err
    /\ UNCHANGED <<graph, c_exit_points, c_doms, c_loops, c_post_doms, c_topo_order, locals>>

----------------------------------------------------------------------------
\* Exit points and loops.

\* _find_exit_points
FindExitPoints == {n \in nodes : succs[n] = {}}

\* exit_points(): the cached property _exit_points.
exit_points ==
    /\ processed
    /\ c_exit_points' = IF c_exit_points # <<>> THEN c_exit_points ELSE <<FindExitPoints>>
    /\ raised' = "none"
    /\ UNCHANGED <<graph, c_doms, c_back_edges, c_loops, c_post_doms, c_idom, c_df, c_topo_order, locals>>

\* The queue loop of _find_loops: the body grown backwards from the source
\* of a back edge.
RECURSIVE LoopBodyWalk(_, _)
LoopBodyWalk(body, queue) ==
    IF queue = <<>> THEN body
    ELSE LET n == Last(queue)
         IN IF n \notin body
            THEN LoopBodyWalk(body \cup {n}, Front(queue) \o SeqOf(preds[n]))
            ELSE LoopBodyWalk(body, Front(queue))

\* A mutant of MergeBody: a later body fragment replaces the earlier one.
ReplaceBody(bodies, header, body) ==
    [h \in DOMAIN bodies \cup {header} |-> IF h # header THEN bodies[h] ELSE body]

\* "if header in bodies: bodies[header].update(body) else: bodies[header] = body"
MergeBody(bodies, header, body) ==
    [h \in DOMAIN bodies \cup {header} |->
        IF h # header THEN bodies[h]
        ELSE IF header \in DOMAIN bodies THEN bodies[header] \cup body
        ELSE body]

\* "for src, dest in self._back_edges"
RECURSIVE LoopBodies(_, _)
LoopBodies(bodies, back_edges) ==
    IF back_edges = {} THEN bodies
    ELSE LET e == CHOOSE x \in back_edges : TRUE
             header == e[2]
             body == LoopBodyWalk({header}, <<e[1]>>)
         IN LoopBodies(MergeBody(bodies, header, body), back_edges \ {e})

\* The Loop object of a header and its body.
MakeLoop(header, body) ==
    [header |-> header,
     body |-> body,
     entries |-> UNION {preds[n] \ body : n \in body},
     exits |-> UNION {succs[n] \ body : n \in body}]

\* _find_loops, given the back edges.
FindLoops(back_edges) ==
    LET bodies == LoopBodies(<<>>, back_edges)
    IN [header \in DOMAIN bodies |-> MakeLoop(header, bodies[header])]

\* loops(): the cached property _loops, which reads _back_edges.
loops ==
    /\ processed
    /\ IF c_loops # <<>>
       THEN UNCHANGED <<c_back_edges, c_loops>>
       ELSE \E be \in BackEdgesChoices :
               /\ c_back_edges' = <<be>>
               /\ c_loops' = <<FindLoops(be)>>
    /\ raised' = "none"
    /\ UNCHANGED <<graph, c_exit_points, c_doms, c_post_doms, c_idom, c_df, c_topo_order, locals>>

----------------------------------------------------------------------------
\* Post-dominators.

\* A mutant of WireToSink: no edge to the sink is added.
WireNothing(t, body) == t

\* "for b in loop.body: self._add_edge(b, dummy_exit)"
RECURSIVE WireToSink(_, _)
WireToSink(t, body) ==
    IF body = {} THEN t
    ELSE LET b == CHOOSE x \in body : TRUE
         IN WireToSink(AddEdgeInternal(t, b, dummy_exit, "None"), body \ {b})

\* A mutant of SeedExitPoints: the sink is not added to the exit points.
SeedWithoutSink(ep) == ep

\* The set the post-dominator analysis is seeded with: the exit points after
\* "self._exit_points.add(dummy_exit)".
SeedExitPoints(ep) == ep \cup {dummy_exit}

\* The first half of _find_post_dominators, with the exit points ep and the
\* loops lp read from the cached properties: the sink joins the exit points
\* and every node of a loop without exits gets an edge to it.
WireInfiniteLoops(ep, lp) ==
    [exit_points |-> SeedExitPoints(ep),
     tables |-> WireToSink(Tables(succs, preds, edge_data),
                           UNION {lp[h].body : h \in {x \in DOMAIN lp : lp[x].exits = {}}})]

\* The second half of _find_post_dominators, on the wired graph w: the
\* backward analysis, then the removal of the sink.  The result: the
\* exception or "none", the table returned, and the tables and the exit
\* point set the call leaves behind.
FindPostDominators(w, ord) ==
    LET r == FindDominatorsInternal(nodes, w.exit_points, w.tables.succs, w.tables.preds, ord)
    IN IF r.err # "none"
       THEN [err |-> r.err, pdoms |-> <<>>, tables |-> w.tables,
             exit_points |-> w.exit_points]
       ELSE [err |-> "none",
             pdoms |-> [n \in DOMAIN r.doms \ {dummy_exit} |-> r.doms[n] \ {dummy_exit}],
             tables |-> RemoveNodeEdges(w.tables, dummy_exit),
             exit_points |-> w.exit_points \ {dummy_exit}]

\* post_dominators() and backbone(): the cached property _post_doms, which
\* reads _exit_points and _loops.
post_dominators ==
    /\ processed
    /\ IF c_post_doms # <<>>
       THEN /\ raised' = "none"
            /\ UNCHANGED <<succs, preds, edge_data, c_exit_points, c_back_edges,
                           c_loops, c_post_doms>>
       ELSE \E be \in BackEdgesChoices :
            \E lp \in {IF c_loops # <<>> THEN c_loops[1] ELSE FindLoops(be)} :
            \E w \in {WireInfiniteLoops(IF c_exit_points # <<>> THEN c_exit_points[1]
                                        ELSE FindExitPoints, lp)} :
            \E ord \in Perms(nodes) :
            \E r \in {FindPostDominators(w, ord)} :
                 /\ c_back_edges' = IF c_loops # <<>> THEN c_back_edges ELSE <<be>>
                 /\ c_loops' = <<lp>>
                 /\ c_exit_points' = <<r.exit_points>>
                 /\ succs' = r.tables.succs
                 /\ preds' = r.tables.preds
                 /\ edge_data' = r.tables.edge_data
                 /\ c_post_doms' = IF r.err = "none" THEN <<r.pdoms>> ELSE c_post_doms
                 /\ raised' = r.err
    /\ UNCHANGED <<nodes, entry_point, dead_nodes, processed, added, c_doms, c_idom, c_df,
                 c_topo_order, locals>>

\* The set backbone() returns once _post_doms is computed.
backbone == c_post_doms[1][entry_point]

----------------------------------------------------------------------------
\* Topological order.

\* _dfs_rec(node) of _find_topo_order, from the state st of seen and
\* post_order, and its "for dest in succs[node]" loop from the i-th member
\* of the iteration order o.  The successors are iterated in any order: the
\* set of the states all runs can end in.
RECURSIVE TopoDfsRec(_, _, _, _), TopoDests(_, _, _, _, _, _)
TopoDfsRec(s, back_edges, node, st) ==
    IF node \in st.seen THEN {st}
    ELSE UNION {
           {[seen |-> e.seen, post_order |-> Append(e.post_order, node)]
              : e \in TopoDests(s, back_edges, node, o, 1,
                                [st EXCEPT !.seen = @ \cup {node}])}
           : o \in Perms(s[node])}

TopoDests(s, back_edges, node, o, i, st) ==
    IF i > Len(o) THEN {st}
    ELSE IF <<node, o[i]>> \in back_edges
    THEN TopoDests(s, back_edges, node, o, i + 1, st)
    ELSE UNION {TopoDests(s, back_edges, node, o, i + 1, e)
                  : e \in TopoDfsRec(s, back_edges, o[i], st)}

\* _find_topo_order: the lists the traversal can return.
FindTopoOrder(back_edges) ==
    {Reverse(e.post_order)
       : e \in TopoDfsRec(succs, back_edges, entry_point,
                          [seen |-> {}, post_order |-> <<>>])}

\* topo_order(): the cached property _topo_order, which reads _back_edges.
topo_order ==
    /\ processed
    /\ IF c_topo_order # <<>>
       THEN UNCHANGED <<c_back_edges, c_topo_order>>
       ELSE \E be \in BackEdgesChoices : \E to \in FindTopoOrder(be) :
               /\ c_back_edges' = <<be>>
               /\ c_topo_order' = <<to>>
    /\ raised' = "none"
    /\ UNCHANGED <<graph, c_exit_points, c_doms, c_loops, c_post_doms, c_idom, c_df, locals>>

----------------------------------------------------------------------------
\* _find_dominators_internal one iteration of its while loop at a time.  pc
\* is "loop" from the call to the return; l_post, l_entries, l_doms and
\* l_todo are its locals.  The todo list is filled in the iteration order of
\* self._nodes and extended in the iteration order of succs_table[n]: any
\* order.

\* _find_dominators: the call with post=False, up to the while loop.
find_dominators_begin ==
    /\ processed
    /\ pc = "idle"
    /\ c_doms = <<>>
    /\ \E todo \in Perms(nodes \ {entry_point}) :
          /\ l_todo' = todo
          /\ l_entries' = {entry_point}
          /\ l_doms' = InitialDoms(nodes, {entry_point})
    /\ l_post' = FALSE
    /\ pc' = "loop"
    /\ raised' = "none"
    /\ UNCHANGED <<graph, caches>>

\* _find_post_dominators: the sink is wired in, then the call with
\* post=True, up to the while loop.
find_post_dominators_begin ==
    /\ processed
    /\ pc = "idle"
    /\ c_post_doms = <<>>
    /\ \E be \in BackEdgesChoices :
       \E lp \in {IF c_loops # <<>> THEN c_loops[1] ELSE FindLoops(be)} :
       \E w \in {WireInfiniteLoops(IF c_exit_points # <<>> THEN c_exit_points[1]
                                   ELSE FindExitPoints, lp)} :
       \E todo \in Perms(nodes \ w.exit_points) :
          /\ c_back_edges' = IF c_loops # <<>> THEN c_back_edges ELSE <<be>>
          /\ c_loops' = <<lp>>
          /\ c_exit_points' = <<w.exit_points>>
          /\ succs' = w.tables.succs
          /\ preds' = w.tables.preds
          /\ edge_data' = w.tables.edge_data
          /\ l_todo' = todo
          /\ l_entries' = w.exit_points
          /\ l_doms' = InitialDoms(nodes, w.exit_points)
    /\ l_post' = TRUE
    /\ pc' = "loop"
    /\ raised' = "none"
    /\ UNCHANGED <<nodes, entry_point, dead_nodes, processed, added, c_doms, c_post_doms,
                   c_idom, c_df, c_topo_order>>

\* One iteration of "while todo": n = todo.pop(), and the update of doms[n].
\* A failed assertion ends the call with the locals dropped.
worklist_iteration ==
    /\ pc = "loop"
    /\ l_todo # <<>>
    /\ LET n == Last(l_todo)
           preds_table == IF l_post THEN succs ELSE preds
           succs_table == IF l_post THEN preds ELSE succs
       IN IF n \in l_entries
          THEN /\ l_todo' = Front(l_todo)
               /\ UNCHANGED <<pc, l_doms, l_entries, l_post, raised>>
          ELSE \E o \in Perms(succs_table[n]) :
               \E st \in {WorklistStep(l_doms, n, Front(l_todo),
                                       NewDoms(l_doms, n, preds_table), succs_table, o)} :
                  IF st.err # "none"
                  THEN /\ raised' = st.err
                       /\ pc' = "idle"
                       /\ l_todo' = <<>>
                       /\ l_doms' = <<>>
                       /\ l_entries' = {}
                       /\ l_post' = FALSE
                  ELSE /\ l_doms' = st.doms
                       /\ l_todo' = st.todo
                       /\ UNCHANGED <<pc, l_entries, l_post, raised>>
    /\ UNCHANGED <<graph, caches>>

\* "return doms" once the todo list is empty, and what the caller does with
\* the table: _find_dominators stores it, _find_post_dominators removes the
\* sink from it, from the graph and from the exit points first.
find_dominators_end ==
    /\ pc = "loop"
    /\ l_todo = <<>>
    /\ IF l_post
       THEN LET t == RemoveNodeEdges(Tables(succs, preds, edge_data), dummy_exit)
            IN /\ c_post_doms' = <<[n \in DOMAIN l_doms \ {dummy_exit} |->
                                      l_doms[n] \ {dummy_exit}]>>
               /\ succs' = t.succs
               /\ preds' = t.preds
               /\ edge_data' = t.edge_data
               /\ c_exit_points' = <<c_exit_points[1] \ {dummy_exit}>>
               /\ UNCHANGED c_doms
       ELSE /\ c_doms' = <<l_doms>>
            /\ UNCHANGED <<succs, preds, edge_data, c_exit_points, c_post_doms>>
    /\ pc' = "idle"
    /\ l_doms' = <<>>
    /\ l_entries' = {}
    /\ l_post' = FALSE
    /\ raised' = "none"
    /\ UNCHANGED <<nodes, entry_point, dead_nodes, processed, added, c_back_edges, c_loops,
                   c_idom, c_df, c_topo_order, l_todo>>

Build ==
    \/ \E n \in NodeIds : add_node(n)
    \/ \E s \in NodeIds, d \in NodeIds, data \in Data : add_edge(s, d, data)
    \/ \E n \in NodeIds : set_entry_point(n)
    \/ process

\* The construction operations with the dominator and immediate dominator
\* queries.
Next == Build \/ dominators \/ immediate_dominators

Spec == Init /\ [][Next]_vars

\* The construction operations with the dominator and dominance frontier
\* queries.
NextFrontier == Build \/ dominators \/ dominance_frontier

SpecFrontier == Init /\ [][NextFrontier]_vars

\* The construction operations with the exit point, loop and post-dominator
\* queries.
NextPost == Build \/ exit_points \/ loops \/ post_dominators

SpecPost == Init /\ [][NextPost]_vars

\* The construction operations with the topological order query.
NextTopo == Build \/ topo_order

SpecTopo == Init /\ [][NextTopo]_vars

\* The construction operations with the two worklist computations run one
\* loop iteration at a time.  The while loop is sequential code: an
\* iteration that can run does run.
NextWorklist ==
    \/ Build
    \/ find_dominators_begin
    \/ find_post_dominators_begin
    \/ worklist_iteration
    \/ find_dominators_end

SpecWorklist == Init /\ [][NextWorklist]_vars /\ WF_vars(worklist_iteration)

----------------------------------------------------------------------------
\* Graph vocabulary of the claims, over the tables of the current state.

\* The nodes reachable from the set S along the edges of table s.
RECURSIVE ReachFrom(_, _)
ReachFrom(s, S) ==
    LET T == S \cup UNION {s[n] : n \in S}
    IN IF T = S THEN S ELSE ReachFrom(s, T)

\* C1: after process(), every live node is reachable from the entry point
\* along successor edges, the dead and the live nodes are disjoint and
\* together are the nodes added, and no successor set, predecessor set or
\* edge payload key mentions a dead node.
C1_DeadBlocksEliminated ==
    processed =>
        /\ nodes \subseteq ReachFrom(succs, {entry_point})
        /\ dead_nodes \cap nodes = {}
        /\ dead_nodes \cup nodes = added
        /\ \A n \in AllIds :
              /\ succs[n] \cap dead_nodes = {}
              /\ preds[n] \cap dead_nodes = {}
              /\ n \in dead_nodes => succs[n] = {} /\ preds[n] = {}
        /\ \A e \in DOMAIN edge_data : e[1] \notin dead_nodes /\ e[2] \notin dead_nodes

\* A processed graph with a dead node and live nodes with edges.
C1_Witness ==
    /\ processed
    /\ dead_nodes # {}
    /\ Cardinality(nodes) >= 2
    /\ edge_data # <<>>

\* The nodes reachable from start along table s without entering node d.
ReachAvoiding(s, start, d) ==
    IF start = d THEN {}
    ELSE ReachFrom([n \in DOMAIN s |-> IF n = d THEN {} ELSE s[n] \ {d}], {start})

\* Every path from the entry point to n passes through d.
Dominates(d, n) == d \in nodes /\ n \notin ReachAvoiding(succs, entry_point, d)

\* C2: after process(), dominators()[n] is the set of the nodes every path
\* from the entry point to n passes through, for every live node n; the
\* entry point is dominated by itself alone and every node dominates itself.
C2_DominatorsArePathDominators ==
    c_doms # <<>> =>
        /\ DOMAIN c_doms[1] = nodes
        /\ \A n \in nodes : c_doms[1][n] = {d \in nodes : Dominates(d, n)}
        /\ c_doms[1][entry_point] = {entry_point}
        /\ \A n \in nodes : n \in c_doms[1][n]

\* The dominators of a graph with a join: a node with two predecessors whose
\* dominators are not all the nodes on one path to it.
C2_Witness ==
    /\ c_doms # <<>>
    /\ \E n \in nodes :
          /\ Cardinality(preds[n]) >= 2
          /\ n # entry_point
          /\ \E p \in preds[n] : p \notin c_doms[1][n]

\* d is a proper dominator of n that every other proper dominator of n
\* dominates, with the dominators read from the table doms.
IsImmediateDominator(doms, d, n) ==
    /\ d \in doms[n] \ {n}
    /\ \A d2 \in doms[n] \ {n} : d2 \in doms[d]

\* C3: after process(), immediate_dominators() maps the entry point to
\* itself and every other live node to its one proper dominator that every
\* other proper dominator of the node dominates, with the dominators taken
\* from dominators(), for every order of the depth-first traversals.
C3_IdomConsistentWithDominators ==
    (c_idom # <<>> /\ c_doms # <<>>) =>
        /\ DOMAIN c_idom[1] = nodes
        /\ c_idom[1][entry_point] = entry_point
        /\ \A n \in nodes \ {entry_point} : \A d \in nodes :
              IsImmediateDominator(c_doms[1], d, n) <=> d = c_idom[1][n]

\* The immediate dominators of a graph where a node has several
\* predecessors, one of them through a back edge, and is not the entry point.
C3_Witness ==
    /\ c_idom # <<>>
    /\ c_doms # <<>>
    /\ \E n \in nodes \ {entry_point} :
          /\ Cardinality(preds[n]) >= 2
          /\ \E p \in preds[n] : <<p, n>> \in c_back_edges[1]
          /\ c_idom[1][n] \notin preds[n] \/ Cardinality(nodes) >= 3

\* C4: after process(), dominance_frontier()[N] is the set of the nodes U
\* that are a successor of a node N dominates and that N does not strictly
\* dominate, for every live node N of every graph.
C4_FrontierMatchesDefinition ==
    (c_df # <<>> /\ c_doms # <<>>) =>
        \A N \in nodes :
            c_df[1][N] = {U \in nodes :
                            /\ \E X \in nodes : N \in c_doms[1][X] /\ U \in succs[X]
                            /\ ~(N \in c_doms[1][U] /\ N # U)}

\* C9: after process(), an edge (src, dest) is in the back edge set exactly
\* when dest dominates src, for every order of the traversal.
C9_BackEdgeIffDominates ==
    (c_back_edges # <<>> /\ c_doms # <<>>) =>
        \A e \in DOMAIN edge_data :
            e \in c_back_edges[1] <=> e[2] \in c_doms[1][e[1]]

\* The nodes in the body of a loop without exits: the nodes the
\* post-dominator analysis wires to the synthetic sink.
InfiniteLoopNodes ==
    UNION {c_loops[1][h].body : h \in {x \in DOMAIN c_loops[1] : c_loops[1][x].exits = {}}}

\* Every path from n to a node of the set ends passes through p.
PostDominates(p, n, ends) == p \in nodes /\ ReachAvoiding(succs, n, p) \cap ends = {}

\* C5 as stated: for every live node N that reaches an exit point,
\* post_dominators()[N] is the set of the nodes every path from N to an exit
\* point passes through.
C5_Original ==
    c_post_doms # <<>> =>
        \A N \in nodes :
            ReachFrom(succs, {N}) \cap FindExitPoints # {} =>
                c_post_doms[1][N] = {P \in nodes : PostDominates(P, N, FindExitPoints)}

\* C5 as amended: the body of a loop without exits ends a path like an exit
\* point does.  For every live node N that reaches an exit point or such a
\* body, post_dominators()[N] is the set of the nodes every path from N to an
\* exit point or to a node of such a body passes through.
C5_PostDominatorsWithInfiniteLoops ==
    c_post_doms # <<>> =>
        LET ends == FindExitPoints \cup InfiniteLoopNodes
        IN \A N \in nodes :
              ReachFrom(succs, {N}) \cap ends # {} =>
                  c_post_doms[1][N] = {P \in nodes : PostDominates(P, N, ends)}

\* The post-dominators of a graph with an exit point and a loop without
\* exits, where the entry point reaches both.
C5_Witness ==
    /\ c_post_doms # <<>>
    /\ FindExitPoints # {}
    /\ InfiniteLoopNodes # {}
    /\ entry_point \notin InfiniteLoopNodes
    /\ Cardinality(c_post_doms[1][entry_point]) = 1

\* C4 fails on the self loop of the entry point: the entry point is in its
\* own dominance frontier and the computed frontier is empty.
C4_FailingInput ==
    ~(/\ c_df # <<>>
      /\ nodes = {entry_point}
      /\ succs[entry_point] = {entry_point}
      /\ c_df[1][entry_point] = {})

\* C9 fails on the irreducible graph 1->2, 1->3, 2->3, 3->2 with entry point
\* 1: one of the edges between 2 and 3 is a back edge and neither node
\* dominates the other.
C9_FailingInput ==
    ~(/\ c_back_edges # <<>>
      /\ c_doms # <<>>
      /\ entry_point = 1
      /\ DOMAIN edge_data = {<<1, 2>>, <<1, 3>>, <<2, 3>>, <<3, 2>>}
      /\ c_back_edges[1] \cap {<<2, 3>>, <<3, 2>>} # {}
      /\ c_doms[1][2] = {1, 2} /\ c_doms[1][3] = {1, 3})

\* C6: after process(), no query fails and backbone() contains the entry
\* point, whatever the exit points and the loops of the graph are.
C6_BackboneContainsEntry ==
    processed =>
        /\ raised = "none"
        /\ c_post_doms # <<>> => entry_point \in backbone

\* The backbone of a graph of several nodes without any exit point.
C6_Witness ==
    /\ c_post_doms # <<>>
    /\ FindExitPoints = {}
    /\ Cardinality(nodes) >= 2
    /\ entry_point \in backbone

\* A step of post_dominators() or backbone() that computes _post_doms on a
\* processed graph without exit points.
NoExitQuery ==
    /\ processed
    /\ FindExitPoints = {}
    /\ c_post_doms = <<>>
    /\ post_dominators

\* C7 as stated: a post-dominator query on a processed graph whose exit
\* point set is empty fails with a configuration error and returns nothing.
C7_Original ==
    [][NoExitQuery => (raised' = "RuntimeError" /\ c_post_doms' = <<>>)]_vars

\* C7 as amended: a post-dominator query on a processed graph whose exit
\* point set is empty does not fail.  The sink is in the seed set, no
\* exception is raised, and the table returned has every live node as a key,
\* each in its own set.
C7_NoExitQueryReturns ==
    [][NoExitQuery =>
          /\ raised' = "none"
          /\ c_post_doms' # <<>>
          /\ DOMAIN c_post_doms'[1] = nodes
          /\ \A n \in nodes : n \in c_post_doms'[1][n]]_vars

\* A post-dominator table returned for a graph without exit points.
C7_Witness ==
    /\ processed
    /\ FindExitPoints = {}
    /\ c_post_doms # <<>>
    /\ raised = "none"

\* C8: a post-dominator query that returns leaves the live nodes, the
\* adjacency, the edge payloads and exit_points() as they were before the
\* call, with no trace of the sink, and every key and member of the table
\* returned is a live node.
C8_SinkNeverObservable ==
    [][(processed /\ c_post_doms = <<>> /\ c_post_doms' # <<>>) =>
          /\ nodes' = nodes
          /\ succs' = succs
          /\ preds' = preds
          /\ edge_data' = edge_data
          /\ c_exit_points'[1] = (IF c_exit_points # <<>> THEN c_exit_points[1]
                                  ELSE FindExitPoints)
          /\ dummy_exit \notin c_exit_points'[1]
          /\ \A n \in AllIds : dummy_exit \notin succs'[n] \cup preds'[n]
          /\ \A e \in DOMAIN edge_data' : e[1] # dummy_exit /\ e[2] # dummy_exit
          /\ DOMAIN c_post_doms'[1] \subseteq nodes'
          /\ \A n \in DOMAIN c_post_doms'[1] : c_post_doms'[1][n] \subseteq nodes']_vars

\* A post-dominator table computed with the sink wired to a loop without
\* exits, in a graph that has an exit point too.
C8_Witness ==
    /\ c_post_doms # <<>>
    /\ InfiniteLoopNodes # {}
    /\ c_exit_points[1] # {}

\* C10: after process(), there is a loop with header h exactly when a back
\* edge ends in h, and every loop holds its header and the source of every
\* back edge into the header in its body, the predecessors of body nodes
\* outside the body as its entries and the successors of body nodes outside
\* the body as its exits.
C10_LoopsConsistentWithBackEdges ==
    c_loops # <<>> =>
        LET lp == c_loops[1]
            be == c_back_edges[1]
        IN /\ DOMAIN lp = {e[2] : e \in be}
           /\ \A h \in DOMAIN lp :
                 /\ lp[h].header = h
                 /\ h \in lp[h].body
                 /\ \A e \in be : e[2] = h => e[1] \in lp[h].body
                 /\ lp[h].entries =
                      {p \in nodes : p \notin lp[h].body /\ \E n \in lp[h].body : p \in preds[n]}
                 /\ lp[h].exits =
                      {x \in nodes : x \notin lp[h].body /\ \E n \in lp[h].body : x \in succs[n]}

\* A loop whose header has two back edges from two other nodes.
C10_Witness ==
    /\ c_loops # <<>>
    /\ \E h \in DOMAIN c_loops[1] : \E e1 \in c_back_edges[1], e2 \in c_back_edges[1] :
          /\ e1[2] = h /\ e2[2] = h
          /\ e1[1] # e2[1] /\ e1[1] # h /\ e2[1] # h

----------------------------------------------------------------------------
\* The position of node n in list s.
IndexOf(s, n) == CHOOSE i \in 1..Len(s) : s[i] = n

\* C11: after process(), the list topo_order() returns holds every live node
\* exactly once, starts with the entry point, and puts u before v for every
\* live edge (u, v) that is not in the back edge set, whatever the order in
\* which the back edge traversal and the topological traversal visit the
\* successors.
C11_TopoOrderRespectsForwardEdges ==
    c_topo_order # <<>> =>
        LET order == c_topo_order[1]
            back_edges == c_back_edges[1]
        IN /\ Range(order) = nodes
           /\ Len(order) = Cardinality(nodes)
           /\ order[1] = entry_point
           /\ \A u \in nodes : \A v \in succs[u] :
                 <<u, v>> \notin back_edges => IndexOf(order, u) < IndexOf(order, v)

\* A three node graph with a back edge and an edge that is not one, its
\* topological order computed.
C11_Witness ==
    /\ c_topo_order # <<>>
    /\ Cardinality(nodes) = 3
    /\ c_back_edges[1] # {}
    /\ \E u \in nodes : \E v \in succs[u] : <<u, v>> \notin c_back_edges[1]

----------------------------------------------------------------------------
\* C12: add_edge(src, dst, data) with src or dst never given to add_node
\* fails with the unknown node error (a ValueError) at that call, and leaves
\* the node set, both adjacency tables, the payload table and the entry
\* point as they were before the call.
C12_AddEdgeUnknownNodeFails ==
    [][\A src \in NodeIds, dest \in NodeIds, data \in Data :
          ((src \notin added \/ dest \notin added) /\ add_edge(src, dest, data)) =>
              /\ raised' = "ValueError"
              /\ nodes' = nodes
              /\ succs' = succs
              /\ preds' = preds
              /\ edge_data' = edge_data
              /\ entry_point' = entry_point]_vars

\* add_edge has just failed on a graph that has nodes, an edge and an entry
\* point, with a node that was never added.
C12_Witness ==
    /\ raised = "ValueError"
    /\ ~processed
    /\ added # NodeIds
    /\ DOMAIN edge_data # {}
    /\ entry_point # None

----------------------------------------------------------------------------
\* C13: in the worklist computation of dominators and of post-dominators
\* (the run with the sink wired in included), a recomputed set that differs
\* from the previous one is a strict subset of it, so the assertion
\* len(new_doms) < len(doms[n]) never fails; every set contains its own
\* node at every moment; and the todo list becomes empty, so the computation
\* terminates: for every live graph and every order of the todo list.
C13_WorklistShrinksAndTerminates ==
    /\ [][pc = "loop" =>
             /\ raised' # "AssertionError"
             /\ pc' = "loop" =>
                   \A n \in DOMAIN l_doms :
                       \/ l_doms'[n] = l_doms[n]
                       \/ l_doms'[n] \subseteq l_doms[n] /\ l_doms'[n] # l_doms[n]]_vars
    /\ [](pc = "loop" => \A n \in DOMAIN l_doms : n \in l_doms[n])
    /\ (pc = "loop") ~> (pc = "loop" /\ l_todo = <<>>)

\* The post-dominator run on a three node graph with the sink wired to a
\* loop without exits has emptied its todo list after shrinking a set.
C13_Witness ==
    /\ pc = "loop"
    /\ l_post
    /\ l_todo = <<>>
    /\ Cardinality(nodes) = 3
    /\ \E n \in nodes : dummy_exit \in succs[n]
    /\ \E n \in nodes : l_doms[n] # nodes /\ n \notin l_entries

====
